---- MODULE Spec2Model ----
(***************************************************************************)
(* Model of class TernarySearchTree (src/ternary_search_tree.py).          *)
(*                                                                         *)
(* A tree object is the triple (root, word_count, words_list).  A node is  *)
(* a record with the five attributes of class Node; an absent node is the  *)
(* value None.  A word is a sequence of character codes (ord(c)), so that  *)
(* Python's comparison of one-character strings is the comparison of the   *)
(* codes.  Every public method is one action; the variable call records    *)
(* the method called last, its arguments and how it ended (the value it    *)
(* returned, or the exception it raised; type is the Python type of the    *)
(* argument, "" for a method without one).  The history variable stored is *)
(* the caller's view of the content: the non-empty words inserted since    *)
(* construction or the last clear() that no delete() reported as removed.  *)
(* No method reads it.                                                     *)
(***************************************************************************)
EXTENDS Integers, Sequences, FiniteSets, TLC

VARIABLES root, word_count, words_list, call, stored

vars == <<root, word_count, words_list, call, stored>>

(***************************************************************************)
(* Bounds of the model.                                                    *)
(***************************************************************************)
\* longest word passed to a method
MaxLen == 2
\* most entries words_list may grow to
MaxWords == 2

(***************************************************************************)
(* Characters: ' ' (32), 'A' (65) and 'a' (97).  They are three distinct   *)
(* characters for the tree (32 < 65 < 97), and the ones str.lower() and    *)
(* str.strip() act on.                                                     *)
(***************************************************************************)
Chars == {32, 65, 97}

RECURSIVE SeqsUpTo(_)
SeqsUpTo(n) ==
    IF n = 0 THEN {<<>>}
    ELSE LET shorter == SeqsUpTo(n - 1)
         IN shorter \cup {Append(s, c) : s \in {t \in shorter : Len(t) = n - 1}, c \in Chars}

\* the strings a caller passes; <<>> is the empty string ''
Words == SeqsUpTo(MaxLen)

(***************************************************************************)
(* Nodes.                                                                  *)
(***************************************************************************)
None == [absent |-> TRUE]

Node(char) ==
    [char |-> char, end_of_word |-> FALSE, _ls |-> None, _eq |-> None, _gt |-> None]

(***************************************************************************)
(* insert_character(node, word, index): index is the 0-based Python index, *)
(* word[index] is word[index + 1] of the sequence.                         *)
(***************************************************************************)
\* insert_character with the branch for a smaller character taken to _gt
RECURSIVE insert_character_wrong_side(_, _, _)
insert_character_wrong_side(node, word, index) ==
    LET char == word[index + 1]
        n == IF node = None THEN Node(char) ELSE node
    IN IF char < n.char
         THEN [n EXCEPT !._gt = insert_character_wrong_side(n._gt, word, index)]
       ELSE IF char > n.char
         THEN [n EXCEPT !._gt = insert_character_wrong_side(n._gt, word, index)]
       ELSE IF index + 1 = Len(word)
         THEN [n EXCEPT !.end_of_word = TRUE]
       ELSE [n EXCEPT !._eq = insert_character_wrong_side(n._eq, word, index + 1)]

\* insert_character that starts the rest of the word on a new node instead
\* of the existing _eq child
RECURSIVE insert_character_fresh_eq(_, _, _)
insert_character_fresh_eq(node, word, index) ==
    LET char == word[index + 1]
        n == IF node = None THEN Node(char) ELSE node
    IN IF char < n.char
         THEN [n EXCEPT !._ls = insert_character_fresh_eq(n._ls, word, index)]
       ELSE IF char > n.char
         THEN [n EXCEPT !._gt = insert_character_fresh_eq(n._gt, word, index)]
       ELSE IF index + 1 = Len(word)
         THEN [n EXCEPT !.end_of_word = TRUE]
       ELSE [n EXCEPT !._eq = insert_character_fresh_eq(None, word, index + 1)]

\* insert_character with the _ls and _gt branches exchanged
RECURSIVE insert_character_swapped(_, _, _)
insert_character_swapped(node, word, index) ==
    LET char == word[index + 1]
        n == IF node = None THEN Node(char) ELSE node
    IN IF char < n.char
         THEN [n EXCEPT !._gt = insert_character_swapped(n._gt, word, index)]
       ELSE IF char > n.char
         THEN [n EXCEPT !._ls = insert_character_swapped(n._ls, word, index)]
       ELSE IF index + 1 = Len(word)
         THEN [n EXCEPT !.end_of_word = TRUE]
       ELSE [n EXCEPT !._eq = insert_character_swapped(n._eq, word, index + 1)]

\* insert_character that clears end_of_word on the nodes it passes through
RECURSIVE insert_character_forgets_flag(_, _, _)
insert_character_forgets_flag(node, word, index) ==
    LET char == word[index + 1]
        n == IF node = None THEN Node(char) ELSE node
    IN IF char < n.char
         THEN [n EXCEPT !._ls = insert_character_forgets_flag(n._ls, word, index)]
       ELSE IF char > n.char
         THEN [n EXCEPT !._gt = insert_character_forgets_flag(n._gt, word, index)]
       ELSE IF index + 1 = Len(word)
         THEN [n EXCEPT !.end_of_word = TRUE]
       ELSE [n EXCEPT !.end_of_word = FALSE,
                      !._eq = insert_character_forgets_flag(n._eq, word, index + 1)]

RECURSIVE insert_character(_, _, _)
insert_character(node, word, index) ==
    LET char == word[index + 1]
        n == IF node = None THEN Node(char) ELSE node
    IN IF char < n.char
         THEN [n EXCEPT !._ls = insert_character(n._ls, word, index)]
       ELSE IF char > n.char
         THEN [n EXCEPT !._gt = insert_character(n._gt, word, index)]
       ELSE IF index + 1 = Len(word)
         THEN [n EXCEPT !.end_of_word = TRUE]
       ELSE [n EXCEPT !._eq = insert_character(n._eq, word, index + 1)]

\* word in self.words_list
InList(word, list) == \E i \in 1..Len(list) : list[i] = word

\* the three attributes of a TernarySearchTree object
Tree(r, c, l) == [root |-> r, word_count |-> c, words_list |-> l]

\* TernarySearchTree()
EmptyTree == Tree(None, 0, <<>>)

\* insert that appends and counts the word without looking it up
insert_always_append(t, word) ==
    Tree(IF word = <<>> THEN t.root ELSE insert_character(t.root, word, 0),
         t.word_count + 1,
         Append(t.words_list, word))

\* insert(word) on the tree object t: the object after the call
insert(t, word) ==
    LET new == ~InList(word, t.words_list)
    IN Tree(IF word = <<>> THEN t.root ELSE insert_character(t.root, word, 0),
            IF new THEN t.word_count + 1 ELSE t.word_count,
            IF new THEN Append(t.words_list, word) ELSE t.words_list)

Self == Tree(root, word_count, words_list)

Init ==
    /\ root = EmptyTree.root
    /\ word_count = EmptyTree.word_count
    /\ words_list = EmptyTree.words_list
    /\ call = [op |-> "__init__", type |-> "", word |-> <<>>, exact |-> FALSE, result |-> "None"]
    /\ stored = {}

Insert(word) ==
    /\ InList(word, words_list) \/ Len(words_list) < MaxWords
    /\ LET t == insert(Self, word)
       IN /\ root' = t.root
          /\ word_count' = t.word_count
          /\ words_list' = t.words_list
    /\ call' = [op |-> "insert", type |-> "str", word |-> word, exact |-> FALSE,
                result |-> "None"]
    /\ stored' = IF word = <<>> THEN stored ELSE stored \cup {word}

(***************************************************************************)
(* search_helper(node, word, index): the node the last character of word   *)
(* ends on, or None.                                                       *)
(***************************************************************************)
\* search_helper that accepts the last character only on an end_of_word node
RECURSIVE search_helper_terminal_only(_, _, _)
search_helper_terminal_only(node, word, index) ==
    IF node = None THEN None
    ELSE LET char == word[index + 1]
         IN IF char < node.char THEN search_helper_terminal_only(node._ls, word, index)
            ELSE IF char > node.char THEN search_helper_terminal_only(node._gt, word, index)
            ELSE IF index + 1 = Len(word)
              THEN (IF node.end_of_word THEN node ELSE None)
            ELSE search_helper_terminal_only(node._eq, word, index + 1)

RECURSIVE search_helper(_, _, _)
search_helper(node, word, index) ==
    IF node = None THEN None
    ELSE LET char == word[index + 1]
         IN IF char < node.char THEN search_helper(node._ls, word, index)
            ELSE IF char > node.char THEN search_helper(node._gt, word, index)
            ELSE IF index + 1 = Len(word) THEN node
            ELSE search_helper(node._eq, word, index + 1)

\* search that answers for '' from the word list
search_listed_empty(r, word, exact) ==
    IF word = <<>> THEN InList(<<>>, words_list)
    ELSE LET node == search_helper(r, word, 0)
         IN IF node = None THEN FALSE ELSE TRUE

\* search(word, exact) on the tree rooted at r; the body never reads exact
search(r, word, exact) ==
    IF word = <<>> THEN FALSE
    ELSE LET node == search_helper(r, word, 0)
         IN IF node = None THEN FALSE ELSE TRUE

\* Python's str() of a bool
Str(b) == IF b THEN "True" ELSE "False"

Search(word, exact) ==
    /\ call' = [op |-> "search", type |-> "str", word |-> word, exact |-> exact,
                result |-> Str(search(root, word, exact))]
    /\ UNCHANGED <<root, word_count, words_list, stored>>

(***************************************************************************)
(* search(word) with an argument that is not a str: None ("NoneType") or   *)
(* 123 ("int").  word == '' is False; search_helper returns None for an    *)
(* absent root (lines 79-80) before it looks at word, and otherwise        *)
(* evaluates word[index] (line 82), which raises TypeError for both.       *)
(***************************************************************************)
NonStrings == {"NoneType", "int"}

search_invalid(r, type) ==
    IF r = None THEN "False" ELSE "TypeError"

SearchInvalid(type, exact) ==
    /\ call' = [op |-> "search", type |-> type, word |-> <<>>, exact |-> exact,
                result |-> search_invalid(root, type)]
    /\ UNCHANGED <<root, word_count, words_list, stored>>

(***************************************************************************)
(* height(), __len__(), is_empty() and all_strings().                      *)
(***************************************************************************)
\* max that leaves out its last argument
max_of_first_two(a, b, c) ==
    IF a >= b THEN a ELSE b

\* Python's max of three integers
max(a, b, c) ==
    IF a >= b /\ a >= c THEN a ELSE IF b >= c THEN b ELSE c

RECURSIVE _height_recursive(_)
_height_recursive(node) ==
    IF node = None THEN 0
    ELSE LET left_height == _height_recursive(node._ls)
             equal_height == _height_recursive(node._eq)
             right_height == _height_recursive(node._gt)
         IN 1 + max(left_height, equal_height, right_height)

height(r) == _height_recursive(r)

Height ==
    /\ call' = [op |-> "height", type |-> "", word |-> <<>>, exact |-> FALSE,
                result |-> ToString(height(root))]
    /\ UNCHANGED <<root, word_count, words_list, stored>>

Len_ ==
    /\ call' = [op |-> "__len__", type |-> "", word |-> <<>>, exact |-> FALSE,
                result |-> ToString(word_count)]
    /\ UNCHANGED <<root, word_count, words_list, stored>>

is_empty(r) == r = None

IsEmpty ==
    /\ call' = [op |-> "is_empty", type |-> "", word |-> <<>>, exact |-> FALSE,
                result |-> Str(is_empty(root))]
    /\ UNCHANGED <<root, word_count, words_list, stored>>

AllStrings ==
    /\ call' = [op |-> "all_strings", type |-> "", word |-> <<>>, exact |-> FALSE,
                result |-> ToString(words_list)]
    /\ UNCHANGED <<root, word_count, words_list, stored>>

(***************************************************************************)
(* str.lower() and str.strip() on sequences of character codes.            *)
(***************************************************************************)
lower(word) ==
    [i \in 1..Len(word) |-> IF word[i] >= 65 /\ word[i] <= 90 THEN word[i] + 32 ELSE word[i]]

IsSpace(c) == c \in {9, 10, 11, 12, 13, 32}

RECURSIVE lstrip(_)
lstrip(word) ==
    IF word # <<>> /\ IsSpace(Head(word)) THEN lstrip(Tail(word)) ELSE word

RECURSIVE rstrip(_)
rstrip(word) ==
    IF word # <<>> /\ IsSpace(word[Len(word)])
      THEN rstrip(SubSeq(word, 1, Len(word) - 1))
      ELSE word

strip(word) == rstrip(lstrip(word))

(***************************************************************************)
(* _delete_recursive(node, word, index): the subtree after the deletion.   *)
(* Its only caller is line 124 of delete, which is never reached (see      *)
(* below); it is modelled as the function it is.                           *)
(***************************************************************************)
RECURSIVE _delete_recursive(_, _, _)
_delete_recursive(node, word, index) ==
    IF node = None THEN None
    ELSE LET char == word[index + 1]
             n == IF char < node.char
                    THEN [node EXCEPT !._ls = _delete_recursive(node._ls, word, index)]
                  ELSE IF char > node.char
                    THEN [node EXCEPT !._gt = _delete_recursive(node._gt, word, index)]
                  ELSE IF index = Len(word) - 1
                    THEN [node EXCEPT !.end_of_word = FALSE]
                  ELSE [node EXCEPT !._eq = _delete_recursive(node._eq, word, index + 1)]
         IN IF ~n.end_of_word /\ n._ls = None /\ n._eq = None /\ n._gt = None
              THEN None
              ELSE n

(***************************************************************************)
(* delete(word).  Class TernarySearchTree defines no attribute _contains,  *)
(* so evaluating self._contains(word) on line 121 raises AttributeError;   *)
(* `not word or ...` evaluates it exactly when the normalised word is not  *)
(* empty.  Lines 124-126 are therefore never executed, and no path of      *)
(* delete assigns to root, word_count or words_list.                       *)
(***************************************************************************)
delete_result(word) ==
    IF word = <<>> THEN "False"
    ELSE LET w == strip(lower(word))
         IN IF w = <<>> THEN "False" ELSE "AttributeError"

Delete(word) ==
    /\ call' = [op |-> "delete", type |-> "str", word |-> word, exact |-> FALSE,
                result |-> delete_result(word)]
    /\ stored' = IF delete_result(word) = "True"
                   THEN stored \ {strip(lower(word))}
                   ELSE stored
    /\ UNCHANGED <<root, word_count, words_list>>

\* clear that empties the word list as well
Clear_resets_list ==
    /\ root' = None
    /\ word_count' = 0
    /\ call' = [op |-> "clear", type |-> "", word |-> <<>>, exact |-> FALSE,
                result |-> "None"]
    /\ stored' = {}
    /\ words_list' = <<>>

Clear ==
    /\ root' = None
    /\ word_count' = 0
    /\ call' = [op |-> "clear", type |-> "", word |-> <<>>, exact |-> FALSE,
                result |-> "None"]
    /\ stored' = {}
    /\ UNCHANGED words_list

Next ==
    \/ \E word \in Words : Insert(word)
    \/ \E word \in Words, exact \in BOOLEAN : Search(word, exact)
    \/ \E type \in NonStrings, exact \in BOOLEAN : SearchInvalid(type, exact)
    \/ \E word \in Words : Delete(word)
    \/ Clear
    \/ Height
    \/ Len_
    \/ IsEmpty
    \/ AllStrings

Spec == Init /\ [][Next]_vars

(***************************************************************************)
(* A caller that only inserts (the loops of the tests and the benchmark).  *)
(***************************************************************************)
NextInsert ==
    \E word \in Words : Insert(word)

SpecInsert == Init /\ [][NextInsert]_vars

(***************************************************************************)
(* A caller that uses the three mutating methods; the queries are the      *)
(* operators above, evaluated on the state.                                *)
(***************************************************************************)
NextMutate ==
    \/ \E word \in Words : Insert(word)
    \/ \E word \in Words : Delete(word)
    \/ Clear

SpecMutate == Init /\ [][NextMutate]_vars

(***************************************************************************)
(* Vocabulary of the properties.                                           *)
(***************************************************************************)
\* p is a prefix of w (w is a prefix of itself)
IsPrefix(p, w) == Len(p) <= Len(w) /\ SubSeq(w, 1, Len(p)) = p

NonEmptyWords == Words \ {<<>>}

\* delete() looks up word.lower().strip(); these are the words it looks up
\* as they are written
IsNormalised(word) == strip(lower(word)) = word

C2_ExactSearchIsMembership ==
    (call.op = "search" /\ call.exact)
        => (call.result = "True" <=> call.word \in stored)

RECURSIVE NumTerminal(_)
NumTerminal(node) ==
    IF node = None THEN 0
    ELSE (IF node.end_of_word THEN 1 ELSE 0)
         + NumTerminal(node._ls) + NumTerminal(node._eq) + NumTerminal(node._gt)

C4_CountIsStoredWords ==
    /\ word_count = Cardinality(stored)
    /\ word_count = NumTerminal(root)

(***************************************************************************)
(* C5.  insert(w) of a word that all_strings() already holds changes       *)
(* nothing: not the counter, not the list, not a node.                     *)
(***************************************************************************)
C5_DuplicateInsertNoOp ==
    [][(call'.op = "insert" /\ InList(call'.word, words_list))
          => UNCHANGED <<root, word_count, words_list>>]_vars

(***************************************************************************)
(* C6.  insert('') changes nothing: tree, counter and list stay as they    *)
(* were, so the empty string is never counted or listed.                   *)
(***************************************************************************)
C6_EmptyInsertNoOp ==
    [][(call'.op = "insert" /\ call'.word = <<>>)
          => (call'.result = "None" /\ UNCHANGED <<root, word_count, words_list>>)]_vars

(***************************************************************************)
(* C7.  delete(w) of a stored word w returns True and does not raise;      *)
(* afterwards search(w, exact=True) is False and len(tree) is one less.    *)
(* Stated for the words delete() does not rewrite before the lookup.       *)
(***************************************************************************)
C7_DeleteStored ==
    [][(call'.op = "delete" /\ call'.word \in stored /\ IsNormalised(call'.word))
          => /\ call'.result = "True"
             /\ ~search(root', call'.word, TRUE)
             /\ word_count' = word_count - 1]_vars

(***************************************************************************)
(* C8.  delete(w) of a non-empty word that is not stored returns False,    *)
(* does not raise, and leaves counter, nodes and list as they were.        *)
(* Stated for the words delete() does not rewrite before the lookup.       *)
(***************************************************************************)
C8_DeleteAbsent ==
    [][(call'.op = "delete" /\ call'.word # <<>> /\ call'.word \notin stored
          /\ IsNormalised(call'.word))
          => (call'.result = "False" /\ UNCHANGED <<root, word_count, words_list>>)]_vars

RECURSIVE Build(_)
Build(seq) ==
    IF seq = <<>> THEN EmptyTree
    ELSE insert(Build(SubSeq(seq, 1, Len(seq) - 1)), seq[Len(seq)])

Range(seq) == {seq[i] : i \in 1..Len(seq)}

Reorder(seq, f) == [i \in 1..Len(seq) |-> seq[f[i]]]

\* the answers of search on the tree rooted at r: for each mode, the
\* strings it returns True for
Answers(r) == [exact \in BOOLEAN |-> {x \in Words : search(r, x, exact)}]

\* what a caller sees of tree object t through search, len and all_strings
\* taken as a set
Observed(t) ==
    [search |-> Answers(t.root), len |-> t.word_count, all_strings |-> Range(t.words_list)]

Agree(t, u) == Observed(t) = Observed(u)

C10_OrderIndependent ==
    LET mine == Observed(Self)
    IN \A f \in Permutations(1..Len(words_list)) :
           Observed(Build(Reorder(words_list, f))) = mine

\* two words whose two orders give trees of different shape
C10_Witness ==
    /\ Len(words_list) = 2
    /\ \A i \in 1..2 : words_list[i] # <<>>
    /\ Build(<<words_list[2], words_list[1]>>).root # root
    /\ Agree(Self, Build(<<words_list[2], words_list[1]>>))

(***************************************************************************)
(* C11.  search with an argument that is not a string (None, an integer)   *)
(* returns False and does not raise, on an empty and on a populated tree.  *)
(***************************************************************************)
C11_SearchNonStringFalse ==
    (call.op = "search" /\ call.type \in NonStrings) => call.result = "False"

(***************************************************************************)
(* C12.  search('') is False in both modes in every state a sequence of    *)
(* insert calls reaches, insert('') included.                              *)
(***************************************************************************)
C12_SearchEmptyFalse ==
    \A exact \in BOOLEAN : ~search(root, <<>>, exact)

\* '' and a non-empty word were both inserted
C12_Witness ==
    /\ call.op = "insert"
    /\ InList(<<>>, words_list)
    /\ root # None
    /\ ~search(root, <<>>, TRUE)
    /\ ~search(root, <<>>, FALSE)

(***************************************************************************)
(* C13.  height() is 0 for the empty tree and otherwise the number of      *)
(* nodes on the longest path from the root down any of the three links; a  *)
(* tree that holds a single word of length n has height n.                 *)
(***************************************************************************)
\* the paths from node to the nodes under it, as sequences of link names
RECURSIVE NodePaths(_)
NodePaths(node) ==
    IF node = None THEN {}
    ELSE {<<>>}
         \cup {<<"_ls">> \o p : p \in NodePaths(node._ls)}
         \cup {<<"_eq">> \o p : p \in NodePaths(node._eq)}
         \cup {<<"_gt">> \o p : p \in NodePaths(node._gt)}

\* nodes on the longest path that starts at r
LongestPath(r) ==
    IF r = None THEN 0
    ELSE CHOOSE n \in 1..(MaxLen * (Cardinality(Chars) + 1)) :
           /\ \E p \in NodePaths(r) : Len(p) + 1 = n
           /\ \A p \in NodePaths(r) : Len(p) + 1 <= n

C13_Height ==
    /\ is_empty(root) => height(root) = 0
    /\ height(root) = LongestPath(root)
    /\ \A w \in stored : stored = {w} => height(root) = Len(w)

\* a single word of two characters: two nodes, height 2
C13_Witness ==
    /\ \E w \in stored : stored = {w} /\ Len(w) = 2
    /\ height(root) = 2

(***************************************************************************)
(* C14.  insert and search handle case and surrounding whitespace: after   *)
(* insert(x) of a string with upper-case letters or leading/trailing       *)
(* spaces, search of the lower-cased, trimmed form with exact=True is      *)
(* True, and search of the untrimmed original with exact=True is False.    *)
(***************************************************************************)
C14_InsertNormalises ==
    (call.op = "insert" /\ ~IsNormalised(call.word) /\ strip(lower(call.word)) # <<>>)
        => /\ search(root, strip(lower(call.word)), TRUE)
           /\ strip(call.word) # call.word => ~search(root, call.word, TRUE)

(***************************************************************************)
(* C15.  Ordering: for every node n, every node reached from n._ls by _ls  *)
(* and _gt links alone has a smaller char than n, and every node reached   *)
(* from n._gt that way has a larger char; so the nodes of one character    *)
(* position under one prefix carry distinct chars.  It holds in every      *)
(* state, and of the tree _delete_recursive returns for a stored word.     *)
(***************************************************************************)
\* node and every node under it
RECURSIVE Subtrees(_)
Subtrees(node) ==
    IF node = None THEN {}
    ELSE {node} \cup Subtrees(node._ls) \cup Subtrees(node._eq) \cup Subtrees(node._gt)

\* node and the nodes reached from it by _ls and _gt links alone
RECURSIVE Level(_)
Level(node) ==
    IF node = None THEN {}
    ELSE {node} \cup Level(node._ls) \cup Level(node._gt)

\* how many nodes Level(node) visits
RECURSIVE LevelSize(_)
LevelSize(node) ==
    IF node = None THEN 0
    ELSE 1 + LevelSize(node._ls) + LevelSize(node._gt)

Ordered(r) ==
    \A n \in Subtrees(r) :
        /\ \A m \in Level(n._ls) : m.char < n.char
        /\ \A m \in Level(n._gt) : m.char > n.char
        /\ Cardinality({m.char : m \in Level(n)}) = LevelSize(n)

NoUselessNode(r) ==
    \A n \in Subtrees(r) :
        n.end_of_word \/ n._ls # None \/ n._eq # None \/ n._gt # None

C16_Pruning ==
    [][(call'.op \in {"insert", "delete"})
          => /\ NoUselessNode(root')
             /\ (call'.op = "delete" /\ stored = {call'.word} /\ IsNormalised(call'.word))
                   => is_empty(root')]_vars

(***************************************************************************)
(* C17.  is_empty() holds exactly when len(tree) is 0.                     *)
(***************************************************************************)
C17_EmptyIffZero ==
    is_empty(root) <=> word_count = 0

NoDuplicates(list) ==
    \A i, j \in 1..Len(list) : list[i] = list[j] => i = j

C19_AllStrings ==
    [][/\ NoDuplicates(words_list')
       /\ IsPrefix(words_list, words_list')
       /\ (call'.op = "insert")
             => /\ InList(call'.word, words_list')
                /\ \/ words_list' = words_list
                   \/ words_list' = Append(words_list, call'.word)]_vars

\* the word inserted first was inserted again after another one: it is
\* listed once, in first place
C19_Witness ==
    /\ call.op = "insert"
    /\ Len(words_list) = 2
    /\ call.word = words_list[1]
    /\ NoDuplicates(words_list)

(***************************************************************************)
(* C20.  search (both modes), height, len, is_empty and all_strings change *)
(* nothing: no node, no end_of_word flag, not the counter, not the list.   *)
(* insert removes no node and clears no end_of_word flag.                  *)
(***************************************************************************)
\* the node the path p of link names leads to from node
RECURSIVE NodeAt(_, _)
NodeAt(node, p) ==
    IF p = <<>> THEN node
    ELSE NodeAt(IF Head(p) = "_ls" THEN node._ls
                ELSE IF Head(p) = "_eq" THEN node._eq
                ELSE node._gt,
                Tail(p))

\* every node of r is in r2 at the same place with the same char, and
\* still has end_of_word set if it had
Keeps(r, r2) ==
    \A p \in NodePaths(r) :
        /\ p \in NodePaths(r2)
        /\ NodeAt(r2, p).char = NodeAt(r, p).char
        /\ NodeAt(r, p).end_of_word => NodeAt(r2, p).end_of_word

Queries == {"search", "height", "__len__", "is_empty", "all_strings"}

C20_PureQueries ==
    [][/\ (call'.op \in Queries) => UNCHANGED <<root, word_count, words_list>>
       /\ (call'.op = "insert") => Keeps(root, root')]_vars

\* height() was called on a tree that holds a word and a longer word
\* whose insert went through the first one's end_of_word node
C20_Witness ==
    /\ call.op = "height"
    /\ call.result = "2"
    /\ \E v \in stored, w \in stored : v # w /\ IsPrefix(v, w)

(***************************************************************************)
(* C21.  After clear() the tree counts like a new one: clear() sets len to *)
(* 0 and every insert of a non-empty word that is not in the tree adds one *)
(* to len, also when the word had been inserted before the clear().        *)
(***************************************************************************)
C21_CountAfterClear ==
    [][/\ (call'.op = "clear") => word_count' = 0
       /\ (call'.op = "insert" /\ call'.word # <<>> /\ call'.word \notin stored)
             => word_count' = word_count + 1]_vars

(***************************************************************************)
(* C22.  For a stored word w, delete(w) followed by insert(w): the delete  *)
(* succeeds, the insert adds one to len (back to the value before the      *)
(* delete) and search(w, exact=True) is True again.  Stated for the words  *)
(* delete() does not rewrite before the lookup.                            *)
(***************************************************************************)
C22_DeleteThenInsert ==
    [][(/\ call.op = "delete"
        /\ call.word # <<>>
        /\ IsNormalised(call.word)
        /\ (call.word \in stored \/ call.result = "True")
        /\ call'.op = "insert"
        /\ call'.word = call.word)
          => /\ call.result = "True"
             /\ word_count' = word_count + 1
             /\ search(root', call.word, TRUE)]_vars
====
